---- MODULE Spec2Model ----
(***************************************************************************)
(* Model of cachi2's generic package manager                               *)
(* (cachi2/core/package_managers/generic/main.py): the lockfile            *)
(* resolution pipeline  validate -> fetch -> verify -> emit  that          *)
(* fetch_generic_source runs for every generic package of a request.       *)
(*                                                                         *)
(* Paths are sequences of path segments counted from the filesystem root;  *)
(* a string such as a package URL is the sequence of its tokens.           *)
(***************************************************************************)
EXTENDS Integers, Sequences, FiniteSets, TLC

(***************************************************************************)
(* Bounds of the model.                                                    *)
(***************************************************************************)
MaxArtifacts == 2
MaxPackages == 2
MaxPackageArtifacts == 1
MaxRuns == 2
MaxConcurrency == 2

(***************************************************************************)
(* Program constants.                                                      *)
(***************************************************************************)
\* DEFAULT_DEPS_DIR = "deps/generic"
DEFAULT_DEPS_DIR == <<"deps", "generic">>

\* request.output_dir: the caller's output root
OutputRoot == <<"out">>

(***************************************************************************)
(* Input domains.                                                          *)
(***************************************************************************)
URLs == {"u1", "u2"}

\* bytes served for a URL (the remote content is stable)
Content(url) == IF url = "u1" THEN "c1" ELSE "c2"

Algorithms == {"sha256", "md5"}

\* hex digest of `content` under `algorithm`
Hash(algorithm, content) ==
    IF algorithm = "sha256"
    THEN (IF content = "c1" THEN "s1" ELSE "s2")
    ELSE (IF content = "c1" THEN "m1" ELSE "m2")

\* an optional field of the raw document: <<>> when absent, <<v>> when present
Opt(S) == {<<>>} \cup {<<v>> : v \in S}

Rel(segs) == [abs |-> FALSE, segs |-> segs]
Abs(segs) == [abs |-> TRUE, segs |-> segs]

\* target strings "a", "lib/a", ".", "../a", "/a"
InsideTargets == {Rel(<<"a">>), Rel(<<"lib", "a">>)}
Targets == InsideTargets \cup {Rel(<<".">>), Rel(<<"..", "a">>), Abs(<<"a">>)}

\* checksum mappings in insertion order, as sequences of <<algorithm, digest>>
S1 == <<"sha256", "s1">>
S2 == <<"sha256", "s2">>
M2 == <<"md5", "m2">>
ChecksumMaps == {<<S1>>, <<S1, M2>>, <<M2, S1>>, <<S2, M2>>}

RawArtifacts(urls, targets, checksums) ==
    [download_url : urls, target : targets, checksums : checksums]

SeqsUpTo(S, n) == UNION {[1..m -> S] : m \in 0..n}

\* a parsed YAML document: version and artifacts keys may be absent
Documents(versions, arts, n) ==
    [version : versions, artifacts : Opt(SeqsUpTo(arts, n))]

\* what is found at <package>/generic_lockfile.yaml
Missing == [kind |-> "missing"]
Malformed == [kind |-> "malformed"]
Parsed(doc) == [kind |-> "yaml", doc |-> doc]

(***************************************************************************)
(* RootedPath: path confinement.                                           *)
(***************************************************************************)
RECURSIVE Normalize(_, _)
\* Path.resolve(): "." is dropped, ".." removes the last segment
Normalize(base, segs) ==
    IF segs = <<>> THEN base
    ELSE LET s == Head(segs)
             b == IF s = "." THEN base
                  ELSE IF s = ".." THEN
                      (IF base = <<>> THEN base ELSE SubSeq(base, 1, Len(base) - 1))
                  ELSE Append(base, s)
         IN Normalize(b, Tail(segs))

\* Path.is_relative_to: p is root or below it
IsWithin(root, p) ==
    /\ Len(p) >= Len(root)
    /\ SubSeq(p, 1, Len(root)) = root

\* root.path / target, resolved (an absolute target overrides the root)
Resolve(root, target) ==
    IF target.abs THEN Normalize(<<>>, target.segs)
    ELSE Normalize(root, target.segs)

\* RootedPath.join_within_root succeeds
JoinsWithinRoot(root, target) == IsWithin(root, Resolve(root, target))

\* RootedPath.re_root(subpath): the new root is root/subpath
ReRootPath(root, sub) == Normalize(root, sub)

Parent(p) == IF p = <<>> THEN p ELSE SubSeq(p, 1, Len(p) - 1)
Name(p) == IF p = <<>> THEN "" ELSE p[Len(p)]

(***************************************************************************)
(* GenericLockfileV1.model_validate                                        *)
(***************************************************************************)
Err(loc, msg) == [loc |-> loc, msg |-> msg]

VersionErrors(doc) ==
    IF doc.version = <<>> THEN <<Err(<<"version">>, "missing")>>
    ELSE IF doc.version[1] # "1.0" THEN <<Err(<<"version">>, "literal_error")>>
    ELSE <<>>

\* errors of the artifact at (0-based) index i, in field order
ArtifactErrors(raw, i, root) ==
    (IF raw.download_url = <<>>
     THEN <<Err(<<"artifacts", i, "download_url">>, "missing")>> ELSE <<>>)
    \o
    (IF raw.target = <<>>
     THEN <<Err(<<"artifacts", i, "target">>, "missing")>>
     ELSE IF ~JoinsWithinRoot(root, raw.target[1])
     THEN <<Err(<<"artifacts", i, "target">>, "path_outside_root")>>
     ELSE <<>>)
    \o
    (IF raw.checksums = <<>>
     THEN <<Err(<<"artifacts", i, "checksums">>, "missing")>>
     ELSE IF raw.checksums[1] = <<>>
     THEN <<Err(<<"artifacts", i, "checksums">>, "no_checksums")>>
     ELSE <<>>)

RECURSIVE ArtifactsErrors(_, _, _)
ArtifactsErrors(raws, i, root) ==
    IF raws = <<>> THEN <<>>
    ELSE ArtifactErrors(Head(raws), i, root) \o ArtifactsErrors(Tail(raws), i + 1, root)

\* e.errors(): every error of the document, in document order
ValidationErrors(doc, root) ==
    VersionErrors(doc)
    \o
    (IF doc.artifacts = <<>> THEN <<Err(<<"artifacts">>, "missing")>>
     ELSE ArtifactsErrors(doc.artifacts[1], 0, root))

\* the validated artifact: target is now the resolved absolute path
ValidArtifact(raw, root) ==
    [download_url |-> raw.download_url[1],
     target |-> Resolve(root, raw.target[1]),
     checksums |-> raw.checksums[1]]

\* the validated lockfile: one artifact per entry, order preserved
ValidLockfile(doc, root) ==
    [i \in 1..Len(doc.artifacts[1]) |-> ValidArtifact(doc.artifacts[1][i], root)]

\* LockfileArtifact.formatted_checksums: the strings "algorithm:digest"
FormattedChecksums(artifact) ==
    [i \in 1..Len(artifact.checksums) |->
        <<artifact.checksums[i][1], ":", artifact.checksums[i][2]>>]

(***************************************************************************)
(* The output directory tree.                                              *)
(***************************************************************************)
Prefixes(p) == {SubSeq(p, 1, n) : n \in 1..Len(p)}

\* fault variant: mkdir without exist_ok raises for a directory that exists
MkdirFailsIfExists(fs_dirs, fs_files, dir) ==
    dir \in fs_dirs \/ Prefixes(dir) \cap DOMAIN fs_files # {}

\* Path.mkdir(dir, parents=True, exist_ok=True) raises when a file is in the way
MkdirFails(fs_dirs, fs_files, dir) == Prefixes(dir) \cap DOMAIN fs_files # {}

\* the exception of a failing Path.mkdir(dir, ...): a file at a strict prefix
\* of dir makes os.mkdir fail with ENOTDIR; otherwise dir itself exists
MkdirError(fs_files, dir) ==
    IF Prefixes(Parent(dir)) \cap DOMAIN fs_files # {} THEN "NotADirectoryError"
    ELSE "FileExistsError"

\* the directories that exist after mkdir(dir, parents=True, exist_ok=True)
MkdirDirs(fs_dirs, dir) == fs_dirs \cup Prefixes(dir)

\* open(dest, "wb") succeeds: dest is no directory and its parent is one
CanWrite(fs_dirs, dest) == dest \notin fs_dirs /\ Parent(dest) \in fs_dirs

WriteFile(fs_files, dest, content) ==
    [p \in DOMAIN fs_files \cup {dest} |-> IF p = dest THEN content ELSE fs_files[p]]

(***************************************************************************)
(* must_match_any_checksum(file_path, expected_checksums)                  *)
(***************************************************************************)
\* the file's digest equals the digest of one "algorithm:digest" string
MatchesAny(content, formatted) ==
    \E i \in 1..Len(formatted) : Hash(formatted[i][1], content) = formatted[i][3]

\* "ok", or the error raised
MustMatchAnyChecksum(fs_files, path, formatted) ==
    IF path \notin DOMAIN fs_files THEN "FileNotFoundError"
    ELSE IF MatchesAny(fs_files[path], formatted) THEN "ok"
    ELSE "ChecksumError"

(***************************************************************************)
(* The download mapping: a dict in insertion order, <<url, destination>>.  *)
(***************************************************************************)
DictKeys(d) == {d[i][1] : i \in 1..Len(d)}
DictValues(d) == {d[i][2] : i \in 1..Len(d)}

\* d[key] = value: a key already present keeps its place and takes the value
DictSet(d, key, value) ==
    IF key \in DictKeys(d)
    THEN [i \in 1..Len(d) |-> IF d[i][1] = key THEN <<key, value>> ELSE d[i]]
    ELSE Append(d, <<key, value>>)

(***************************************************************************)
(* PackageURL(...).to_string() and the SBOM components.                    *)
(***************************************************************************)
RECURSIVE Join(_, _)
\* sep.join(parts), each part a token sequence
Join(sep, parts) ==
    IF parts = <<>> THEN <<>>
    ELSE IF Len(parts) = 1 THEN parts[1]
    ELSE parts[1] \o <<sep>> \o Join(sep, Tail(parts))

\* ",".join([f"{algo}:{digest}" for algo, digest in artifact.checksums.items()])
ChecksumsString(checksums) ==
    Join(",", [i \in 1..Len(checksums) |-> <<checksums[i][1], ":", checksums[i][2]>>])

\* PackageURL(type=..., name=..., qualifiers={...}): the arguments of the
\* constructor, the qualifiers as <<key, value>> in the dict's insertion order
PackageURL(type, name, qualifiers) ==
    [type |-> type, name |-> name, qualifiers |-> qualifiers]

\* purl.to_string(): the string is made by the packageurl library, which is
\* not part of the source; it is kept as the call on the object it is made from
PurlToString(purl) == [to_string |-> purl]

\* the component of one artifact
ComponentOf(artifact) ==
    LET name == Name(artifact.target)
        url == artifact.download_url
    IN [name |-> name,
        purl |-> PurlToString(PackageURL("generic", name,
                    <<<<"download_url", <<url>>>>,
                      <<"checksums", ChecksumsString(artifact.checksums)>>>>)),
        type |-> "file",
        external_references |-> <<[url |-> url, type |-> "distribution"]>>]

RECURSIVE DropRepeatedUrls(_, _)
\* the artifacts whose URL no earlier artifact has
DropRepeatedUrls(lf, seen) ==
    IF lf = <<>> THEN <<>>
    ELSE IF Head(lf).download_url \in seen THEN DropRepeatedUrls(Tail(lf), seen)
    ELSE <<Head(lf)>> \o DropRepeatedUrls(Tail(lf), seen \cup {Head(lf).download_url})

\* fault variant: one component per URL
GenerateUniqueComponents(lf) ==
    [i \in 1..Len(DropRepeatedUrls(lf, {})) |-> ComponentOf(DropRepeatedUrls(lf, {})[i])]

\* _generate_sbom_components(lockfile)
GenerateSbomComponents(lf) == [i \in 1..Len(lf) |-> ComponentOf(lf[i])]

\* RequestOutput.from_obj_list(components=components): the call and the list
\* it is given; RequestOutput is not part of the source
FromObjList(components) == [components |-> components]

(***************************************************************************)
(* State.                                                                  *)
(***************************************************************************)
VARIABLES
    request,            \* the lockfile found for each generic package, in request order
    concurrency_limit,  \* get_config().concurrency_limit
    past,               \* how the earlier calls of fetch_generic_source ended
    pc,                 \* where the call is
    pkg,                \* index of the package being resolved (0 before the first)
    output_dir,         \* root of output_dir in _resolve_generic_lockfile
    lockfile,           \* the validated lockfile's artifacts
    k,                  \* index of the next artifact in the loop being run
    to_download,        \* the mapping built for the downloader
    nstarted,           \* entries of the mapping whose transfer was started
    inflight,           \* entries of the mapping whose transfer is running
    completed,          \* URLs whose transfer completed, in completion order
    dirs,               \* directories of the output tree
    files,              \* files of the output tree and their content
    components,         \* the list built by fetch_generic_source
    output,             \* what the call returned: <<>> or <<from_obj_list call>>
    error,              \* the exception that left fetch_generic_source: <<>> or <<e>>
    started,            \* packages whose resolution began in this call
    mkdir_calls,        \* directories mkdir was called for, current package
    dl_calls,           \* mappings the downloader was called with, current package
    checked,            \* artifacts that passed must_match_any_checksum, current package
    emitted,            \* packages whose components were generated in this call
    first_done          \* the output tree when a call first returned: <<>> or <<tree>>

vars == <<request, concurrency_limit, past, pc, pkg, output_dir, lockfile, k,
          to_download, nstarted, inflight, completed, dirs, files, components,
          output, error, started, mkdir_calls, dl_calls, checked, emitted, first_done>>

input == <<request, concurrency_limit>>
fs == <<dirs, files>>
downloader == <<nstarted, inflight, completed>>
history == <<started, mkdir_calls, dl_calls, checked, emitted, first_done>>

EmptyFiles == [p \in {} |-> "c1"]

\* an output tree in which a file stands at path p, its parents directories
FileAt(p) == [dirs |-> Prefixes(Parent(p)), files |-> [q \in {p} |-> "c2"]]

\* the output tree before the call: empty
EmptyTree == [dirs |-> {}, files |-> EmptyFiles]

\* the output tree before the call: empty, or with a file left where the
\* call wants a directory (deps/generic, or deps/generic/lib)
PreparedTrees ==
    {EmptyTree,
     FileAt(OutputRoot \o DEFAULT_DEPS_DIR),
     FileAt(OutputRoot \o DEFAULT_DEPS_DIR \o <<"lib">>)}

(***************************************************************************)
(* Requests.                                                               *)
(***************************************************************************)
\* one package whose artifacts have every field and a target inside the root;
\* the version may be absent or unknown and the artifacts key absent
PipelineRequests ==
    {<<Parsed(d)>> : d \in Documents(Opt({"1.0", "9.9"}),
        RawArtifacts({<<u>> : u \in URLs},
                     {<<t>> : t \in InsideTargets \cup {Rel(<<".">>)}},
                     {<<c>> : c \in ChecksumMaps}),
        MaxArtifacts)}

\* one package; every field of the document may be absent or invalid
ValidationRequests ==
    {<<Parsed(d)>> : d \in Documents(Opt({"1.0", "9.9"}),
        RawArtifacts(Opt({"u1"}), Opt(Targets), Opt({<<>>, <<S1>>})),
        MaxArtifacts)}

\* several packages (package.path is inside request.source_dir: the request
\* was validated); a lockfile may be missing, no YAML, or lack its artifacts
PackageFiles ==
    {Missing, Malformed} \cup
    {Parsed(d) : d \in Documents({<<"1.0">>},
        RawArtifacts({<<u>> : u \in URLs},
                     {<<Rel(<<"a">>)>>},
                     {<<<<S1>>>>, <<<<M2>>>>}),
        MaxPackageArtifacts)}

MultiRequests == SeqsUpTo(PackageFiles, MaxPackages)

\* one package with a lockfile that validates
RerunRequests ==
    {<<Parsed(d)>> : d \in Documents({<<"1.0">>},
        RawArtifacts({<<u>> : u \in URLs},
                     {<<t>> : t \in InsideTargets \cup {Rel(<<".">>)}},
                     {<<<<S1>>>>, <<<<S1, M2>>>>}),
        MaxArtifacts)}

\* the state when fetch_generic_source is entered, all but the output tree
Entered ==
    /\ pc = "loop"
    /\ pkg = 0
    /\ output_dir = OutputRoot
    /\ lockfile = <<>>
    /\ k = 1
    /\ to_download = <<>>
    /\ nstarted = 0
    /\ inflight = {}
    /\ completed = <<>>
    /\ components = <<>>
    /\ output = <<>>
    /\ error = <<>>
    /\ started = {}
    /\ mkdir_calls = {}
    /\ dl_calls = <<>>
    /\ checked = <<>>
    /\ emitted = {}

InitWith(requests, trees) ==
    /\ request \in requests
    /\ concurrency_limit \in 1..MaxConcurrency
    /\ past = <<>>
    /\ \E tree \in trees : dirs = tree.dirs /\ files = tree.files
    /\ first_done = <<>>
    /\ Entered

Init == InitWith(PipelineRequests, PreparedTrees)
InitValidate == InitWith(ValidationRequests, {EmptyTree})
InitMulti == InitWith(MultiRequests, {EmptyTree})
InitRerun == InitWith(RerunRequests, {EmptyTree})

(***************************************************************************)
(* fetch_generic_source                                                    *)
(***************************************************************************)
\* fault variant: the loop over the packages swallows the exception
RaiseAndContinue(kind, err) ==
    /\ pc' = "loop"
    /\ error' = <<>>
    /\ UNCHANGED output

\* an exception leaves _resolve_generic_lockfile and fetch_generic_source
Raise(kind, err) ==
    /\ pc' = "failed"
    /\ error' = <<[kind |-> kind, loc |-> err.loc, msg |-> err.msg]>>
    /\ UNCHANGED output

NoLoc == Err(<<>>, "")

\* for package in request.generic_packages: enter _resolve_generic_lockfile
NextPackage ==
    /\ pc = "loop"
    /\ pkg < Len(request)
    /\ pkg' = pkg + 1
    /\ pc' = "exists"
    /\ output_dir' = OutputRoot
    /\ lockfile' = <<>>
    /\ k' = 1
    /\ to_download' = <<>>
    /\ nstarted' = 0
    /\ inflight' = {}
    /\ completed' = <<>>
    /\ started' = started \cup {pkg + 1}
    /\ mkdir_calls' = {}
    /\ dl_calls' = <<>>
    /\ checked' = <<>>
    /\ UNCHANGED <<input, past, fs, components, output, error, emitted, first_done>>

\* return RequestOutput.from_obj_list(components=components)
Return ==
    /\ pc = "loop"
    /\ pkg = Len(request)
    /\ pc' = "done"
    /\ output' = <<FromObjList(components)>>
    /\ first_done' = IF first_done = <<>> THEN <<[dirs |-> dirs, files |-> files]>>
                     ELSE first_done
    /\ UNCHANGED <<input, past, pkg, output_dir, lockfile, k, to_download, downloader,
                   fs, components, error, started, mkdir_calls, dl_calls, checked,
                   emitted>>

(***************************************************************************)
(* _resolve_generic_lockfile                                               *)
(***************************************************************************)
\* if not lockfile_path.path.exists(): raise PackageRejected
CheckLockfile ==
    /\ pc = "exists"
    /\ IF request[pkg].kind = "missing"
       THEN Raise("LockfileMissing", NoLoc)
       ELSE pc' = "reroot" /\ UNCHANGED <<error, output>>
    /\ UNCHANGED <<input, past, pkg, output_dir, lockfile, k, to_download, downloader,
                   fs, components, history>>

\* output_dir = output_dir.re_root(DEFAULT_DEPS_DIR)
ReRoot ==
    /\ pc = "reroot"
    /\ output_dir' = ReRootPath(output_dir, DEFAULT_DEPS_DIR)
    /\ pc' = "load"
    /\ UNCHANGED <<input, past, pkg, lockfile, k, to_download, downloader, fs,
                   components, output, error, history>>

\* fault variant: the last error is reported
LastError(errors) == errors[Len(errors)]

\* the error of e.errors() that _load_lockfile reports: e.errors()[0]
ReportedError(errors) == errors[1]

\* lockfile = _load_lockfile(lockfile_path, output_dir)
LoadLockfile ==
    /\ pc = "load"
    /\ IF request[pkg].kind = "malformed"
       THEN Raise("LockfileMalformed", NoLoc) /\ UNCHANGED <<lockfile>>
       ELSE LET errors == ValidationErrors(request[pkg].doc, output_dir) IN
            IF errors # <<>>
            THEN Raise("ValidationError", ReportedError(errors)) /\ UNCHANGED <<lockfile>>
            ELSE /\ lockfile' = ValidLockfile(request[pkg].doc, output_dir)
                 /\ pc' = "mkdir"
                 /\ UNCHANGED <<error, output>>
    /\ UNCHANGED <<input, past, pkg, output_dir, k, to_download, downloader, fs,
                   components, history>>

\* the destination the mapping holds for a URL after an artifact is added
MapArtifact(d, url, target) == DictSet(d, url, target)

\* one turn of the loop: mkdir(Path(artifact.target).parent); to_download[url] = target
MkdirAndMap ==
    /\ pc = "mkdir"
    /\ k <= Len(lockfile)
    /\ LET dir == Parent(lockfile[k].target) IN
       /\ mkdir_calls' = mkdir_calls \cup {dir}
       /\ IF MkdirFails(dirs, files, dir)
          THEN Raise(MkdirError(files, dir), Err(dir, "a file is in the way"))
               /\ UNCHANGED <<dirs, to_download, k>>
          ELSE /\ dirs' = MkdirDirs(dirs, dir)
               /\ to_download' = MapArtifact(to_download, lockfile[k].download_url,
                                             lockfile[k].target)
               /\ k' = k + 1
               /\ UNCHANGED <<pc, error, output>>
    /\ UNCHANGED <<input, past, pkg, output_dir, lockfile, downloader, files, components,
                   started, dl_calls, checked, emitted, first_done>>

\* asyncio.run(async_download_files(to_download, concurrency_limit)) is entered
CallDownloader ==
    /\ pc = "mkdir"
    /\ k > Len(lockfile)
    /\ pc' = "download"
    /\ dl_calls' = Append(dl_calls, to_download)
    /\ UNCHANGED <<input, past, pkg, output_dir, lockfile, k, to_download, downloader, fs,
                   components, output, error, started, mkdir_calls, checked, emitted,
                   first_done>>

(***************************************************************************)
(* async_download_files(to_download, concurrency_limit)                    *)
(***************************************************************************)
\* the next transfer of the mapping starts when the limit allows one more
StartTransfer ==
    /\ pc = "download"
    /\ nstarted < Len(to_download)
    /\ Cardinality(inflight) < concurrency_limit
    /\ nstarted' = nstarted + 1
    /\ inflight' = inflight \cup {nstarted + 1}
    /\ UNCHANGED <<input, past, pc, pkg, output_dir, lockfile, k, to_download, completed,
                   fs, components, output, error, history>>

\* a running transfer completes: the bytes of the URL are at the destination
CompleteTransfer ==
    /\ pc = "download"
    /\ \E i \in inflight :
        /\ CanWrite(dirs, to_download[i][2])
        /\ files' = WriteFile(files, to_download[i][2], Content(to_download[i][1]))
        /\ inflight' = inflight \ {i}
        /\ completed' = Append(completed, to_download[i][1])
    /\ UNCHANGED <<input, past, pc, pkg, output_dir, lockfile, k, to_download, nstarted,
                   dirs, components, output, error, history>>

\* a running transfer fails: the batch raises and the other transfers are cancelled
FailTransfer ==
    /\ pc = "download"
    /\ \E i \in inflight :
        /\ Raise("FetchError", Err(<<to_download[i][1]>>, "transfer failed"))
        /\ inflight' = {}
    /\ UNCHANGED <<input, past, pkg, output_dir, lockfile, k, to_download, nstarted,
                   completed, fs, components, history>>

\* every transfer completed: asyncio.run returns
DownloadReturns ==
    /\ pc = "download"
    /\ nstarted = Len(to_download)
    /\ inflight = {}
    /\ pc' = "verify"
    /\ k' = 1
    /\ UNCHANGED <<input, past, pkg, output_dir, lockfile, to_download, downloader, fs,
                   components, output, error, history>>

(***************************************************************************)
(* _resolve_generic_lockfile: verification and components                  *)
(***************************************************************************)
\* fault variant: the artifacts are visited last to first
LastArtifactFirst(i, n) == n + 1 - i

\* for artifact in lockfile.artifacts: the artifact of the i-th turn, of n
ArtifactOfTurn(i, n) == i

\* fault variant: only the first declared checksum is given to the primitive
VerifyFirstChecksum(fs_files, artifact) ==
    MustMatchAnyChecksum(fs_files, artifact.target,
                         SubSeq(FormattedChecksums(artifact), 1, 1))

\* must_match_any_checksum(artifact.target, artifact.formatted_checksums)
VerifyChecksums(fs_files, artifact) ==
    MustMatchAnyChecksum(fs_files, artifact.target, FormattedChecksums(artifact))

\* one turn of the verification loop
VerifyArtifact ==
    /\ pc = "verify"
    /\ k <= Len(lockfile)
    /\ LET i == ArtifactOfTurn(k, Len(lockfile))
           r == VerifyChecksums(files, lockfile[i]) IN
       IF r = "ok"
       THEN /\ checked' = Append(checked, i)
            /\ k' = k + 1
            /\ UNCHANGED <<pc, error, output>>
       ELSE /\ Raise(r, Err(lockfile[i].target, "no checksum matches"))
            /\ UNCHANGED <<checked, k>>
    /\ UNCHANGED <<input, past, pkg, output_dir, lockfile, to_download, downloader, fs,
                   components, started, mkdir_calls, dl_calls, emitted, first_done>>

\* fault variant: the return statement is inside the verification loop
EmitInsideLoop ==
    /\ pc = "verify"
    /\ components' = components \o GenerateSbomComponents(lockfile)
    /\ emitted' = emitted \cup {pkg}
    /\ pc' = "loop"
    /\ UNCHANGED <<input, past, pkg, output_dir, lockfile, k, to_download, downloader, fs,
                   output, error, started, mkdir_calls, dl_calls, checked, first_done>>

\* return _generate_sbom_components(lockfile); components.extend(...)
Emit ==
    /\ pc = "verify"
    /\ k > Len(lockfile)
    /\ components' = components \o GenerateSbomComponents(lockfile)
    /\ emitted' = emitted \cup {pkg}
    /\ pc' = "loop"
    /\ UNCHANGED <<input, past, pkg, output_dir, lockfile, k, to_download, downloader, fs,
                   output, error, started, mkdir_calls, dl_calls, checked, first_done>>

(***************************************************************************)
(* The caller runs fetch_generic_source again on the same request and      *)
(* output directory.                                                       *)
(***************************************************************************)
Rerun ==
    /\ pc \in {"done", "failed"}
    /\ Len(past) + 1 < MaxRuns
    /\ past' = Append(past, IF pc = "done" THEN "done" ELSE error[1].kind)
    /\ pc' = "loop"
    /\ pkg' = 0
    /\ output_dir' = OutputRoot
    /\ lockfile' = <<>>
    /\ k' = 1
    /\ to_download' = <<>>
    /\ nstarted' = 0
    /\ inflight' = {}
    /\ completed' = <<>>
    /\ components' = <<>>
    /\ output' = <<>>
    /\ error' = <<>>
    /\ started' = {}
    /\ mkdir_calls' = {}
    /\ dl_calls' = <<>>
    /\ checked' = <<>>
    /\ emitted' = {}
    /\ UNCHANGED <<input, fs, first_done>>

Next ==
    \/ NextPackage
    \/ Return
    \/ CheckLockfile
    \/ ReRoot
    \/ LoadLockfile
    \/ MkdirAndMap
    \/ CallDownloader
    \/ StartTransfer
    \/ CompleteTransfer
    \/ FailTransfer
    \/ DownloadReturns
    \/ VerifyArtifact
    \/ Emit

NextRerun == Next \/ Rerun

\* one package, artifacts that validate
Spec == Init /\ [][Next]_vars

\* one package, any document
SpecValidate == InitValidate /\ [][Next]_vars

\* several packages
SpecMulti == InitMulti /\ [][Next]_vars

\* one package, resolved again after the call ended
SpecRerun == InitRerun /\ [][NextRerun]_vars

(***************************************************************************)
(* Properties.                                                             *)
(***************************************************************************)
\* <output root>/deps/generic
GenericRoot == OutputRoot \o DEFAULT_DEPS_DIR

Failed == pc = "failed"
FailedWith(kind) == pc = "failed" /\ error[1].kind = kind
InOrder(n) == [i \in 1..n |-> i]
Min(S) == CHOOSE x \in S : \A y \in S : x <= y

\* the raw artifacts of the document of package p (none when the key is absent)
RawArtifactsOf(p) ==
    IF request[p].kind = "yaml" /\ request[p].doc.artifacts # <<>>
    THEN request[p].doc.artifacts[1] ELSE <<>>

\* C1: the stages run in the order validate, fetch, verify, emit: the downloader
\* is called once, only for a lockfile that validated; verification starts only
\* when every transfer of the batch completed; components are generated only
\* when every artifact was verified; and after a failure nothing runs and
\* nothing is returned.
C1_StagesInOrder ==
    /\ dl_calls # <<>> =>
        /\ request[pkg].kind = "yaml"
        /\ ValidationErrors(request[pkg].doc, GenericRoot) = <<>>
        /\ Len(dl_calls) = 1
        /\ Len(lockfile) = Len(request[pkg].doc.artifacts[1])
    /\ (pc = "verify" \/ checked # <<>>) =>
        /\ dl_calls # <<>>
        /\ inflight = {}
        /\ nstarted = Len(to_download)
        /\ Len(completed) = Len(to_download)
        /\ \A i \in 1..Len(to_download) : to_download[i][2] \in DOMAIN files
    /\ pkg \in emitted => checked = InOrder(Len(lockfile))
    /\ Failed =>
        /\ pkg \notin emitted
        /\ components = <<>>
        /\ output = <<>>
        /\ ~ENABLED Next
        /\ error[1].kind \in {"LockfileMissing", "LockfileMalformed", "ValidationError"}
             => mkdir_calls = {} /\ dl_calls = <<>> /\ checked = <<>>
        /\ error[1].kind \in {"FileExistsError", "NotADirectoryError"}
             => dl_calls = <<>> /\ checked = <<>>
        /\ error[1].kind = "FetchError" => checked = <<>>

\* a checksum failure at the second artifact: the first three stages ran
C1_Witness ==
    /\ FailedWith("ChecksumError")
    /\ Len(completed) = 2
    /\ checked = <<1>>

\* rank of a field path in document order
LocRank(loc) ==
    IF Len(loc) = 1 THEN (IF loc[1] = "version" THEN 0 ELSE 1)
    ELSE 1 + 3 * loc[2] +
         (IF loc[3] = "download_url" THEN 1 ELSE IF loc[3] = "target" THEN 2 ELSE 3)

\* field r of a raw artifact is invalid
FieldInvalid(raw, r) ==
    IF r = 1 THEN raw.download_url = <<>>
    ELSE IF r = 2 THEN raw.target = <<>> \/ ~JoinsWithinRoot(GenericRoot, raw.target[1])
    ELSE raw.checksums = <<>> \/ raw.checksums = <<<<>>>>

\* ranks of the invalid fields of a document
InvalidRanks(doc) ==
    (IF doc.version # <<"1.0">> THEN {0} ELSE {})
    \cup
    (IF doc.artifacts = <<>> THEN {1}
     ELSE UNION {{1 + 3 * (i - 1) + r : r \in {q \in 1..3 :
                     FieldInvalid(doc.artifacts[1][i], q)}} :
                 i \in 1..Len(doc.artifacts[1])})

InvalidDocument(p) == request[p].kind = "yaml" /\ InvalidRanks(request[p].doc) # {}

\* C2: for a lockfile that fails validation the call ends rejected with the
\* field path of the first invalid field in document order, and up to then no
\* directory was made, the downloader was not called and the output tree is
\* untouched.
C2_InvalidLockfileRejectedBeforeIO ==
    (pkg >= 1 /\ InvalidDocument(pkg)) =>
        /\ mkdir_calls = {}
        /\ dl_calls = <<>>
        /\ nstarted = 0
        /\ completed = <<>>
        /\ (pkg = 1 /\ past = <<>>) => dirs = {} /\ files = EmptyFiles
        /\ pc \notin {"exists", "reroot", "load"} =>
            /\ FailedWith("ValidationError")
            /\ LocRank(error[1].loc) = Min(InvalidRanks(request[pkg].doc))

\* a valid first artifact, then one whose target leaves the root and whose
\* checksums are empty: the target is reported
C2_Witness ==
    /\ FailedWith("ValidationError")
    /\ error[1].loc = <<"artifacts", 1, "target">>
    /\ error[1].msg = "path_outside_root"
    /\ Len(ValidationErrors(request[pkg].doc, GenericRoot)) = 2
    /\ dirs = {}

\* C3: every target of every artifact is a destination of the mapping the
\* downloader is called with, and when verification starts every artifact's
\* target file was written.
C3_EveryTargetIsADestination ==
    /\ dl_calls # <<>> =>
        \A i \in 1..Len(lockfile) : lockfile[i].target \in DictValues(dl_calls[1])
    /\ pc = "verify" =>
        \A i \in 1..Len(lockfile) : lockfile[i].target \in DOMAIN files

\* C4: every directory made for an artifact and every destination given to
\* the downloader is the re-rooted output directory or below it, the
\* re-rooting comes before any of them, and a lockfile with a target that
\* leaves that root never reaches mkdir or the downloader.
C4_Confinement ==
    /\ \A d \in mkdir_calls : IsWithin(GenericRoot, d)
    /\ \A c \in 1..Len(dl_calls) : \A d \in DictValues(dl_calls[c]) : IsWithin(GenericRoot, d)
    /\ (mkdir_calls # {} \/ dl_calls # <<>>) => output_dir = GenericRoot
    /\ \A p \in started : \A i \in 1..Len(RawArtifactsOf(p)) :
         LET raw == RawArtifactsOf(p)[i] IN
         (p = pkg /\ raw.target # <<>> /\ ~JoinsWithinRoot(GenericRoot, raw.target[1]))
            => mkdir_calls = {} /\ dl_calls = <<>>

\* the file at the target of artifact i matches one of its declared checksums
Matches(i) ==
    /\ lockfile[i].target \in DOMAIN files
    /\ \E j \in 1..Len(lockfile[i].checksums) :
         Hash(lockfile[i].checksums[j][1], files[lockfile[i].target])
            = lockfile[i].checksums[j][2]

\* C5: an artifact passes verification exactly when the file at its target
\* matches at least one declared algorithm:digest pair; one that matches none
\* fails the call with a checksum error; components are generated only when
\* every artifact passed.
C5_ChecksumOrPolicy ==
    /\ \A n \in 1..Len(checked) : Matches(checked[n])
    /\ FailedWith("ChecksumError") =>
        /\ lockfile[k].target \in DOMAIN files
        /\ ~Matches(k)
    /\ FailedWith("FileNotFoundError") => lockfile[k].target \notin DOMAIN files
    /\ (pc = "verify" /\ k <= Len(lockfile) /\ Matches(k)) => ENABLED (VerifyArtifact /\ pc' = "verify")
    /\ (pc = "verify" /\ k <= Len(lockfile) /\ ~Matches(k)) => ENABLED (VerifyArtifact /\ pc' = "failed")
    /\ pkg \in emitted => \A i \in 1..Len(lockfile) : Matches(i)

\* an artifact with one wrong and one right checksum passed
C5_Witness ==
    \E n \in 1..Len(checked) :
        LET a == lockfile[checked[n]] IN
        /\ Len(a.checksums) = 2
        /\ Hash(a.checksums[1][1], files[a.target]) # a.checksums[1][2]
        /\ Hash(a.checksums[2][1], files[a.target]) = a.checksums[2][2]

\* C6: verification visits the artifacts one after another in lockfile order;
\* a checksum error is that of the first artifact in lockfile order that
\* matches none of its checksums: all before it passed, none after it was
\* checked.
C6_VerificationInLockfileOrder ==
    /\ checked = InOrder(Len(checked))
    /\ pc = "verify" => Len(checked) = k - 1
    /\ FailedWith("ChecksumError") =>
        LET f == Len(checked) + 1 IN
        /\ f <= Len(lockfile)
        /\ error[1].loc = lockfile[f].target
        /\ ~Matches(f)
        /\ \A j \in 1..(f - 1) : Matches(j)

\* the first of two artifacts fails, the second would have failed too
C6_Witness ==
    /\ FailedWith("ChecksumError")
    /\ checked = <<>>
    /\ Len(lockfile) = 2
    /\ lockfile[2].target \in DOMAIN files
    /\ ~Matches(2)
    /\ lockfile[1].target # lockfile[2].target

\* C7: the component list _resolve_generic_lockfile returns for a lockfile
\* that was fetched and verified has one component per artifact of the
\* lockfile, artifacts that repeat included, the i-th made from the i-th
\* artifact (its name the target's file name, its external reference the
\* download URL, its package URL built from type generic, that name, the
\* download URL and the artifact's algorithm:digest pairs joined by commas in
\* the mapping's insertion order), whatever the order in which the transfers
\* completed.
C7_OneComponentPerArtifact ==
    1 \in emitted =>
        LET raws == RawArtifactsOf(1)
            comps == components
        IN /\ Len(comps) = Len(raws)
           /\ \A i \in 1..Len(raws) :
                LET cs == raws[i].checksums[1]
                    purl == comps[i].purl.to_string
                    quals == purl.qualifiers
                IN /\ comps[i].name = Name(Resolve(GenericRoot, raws[i].target[1]))
                   /\ comps[i].type = "file"
                   /\ comps[i].external_references
                        = <<[url |-> raws[i].download_url[1], type |-> "distribution"]>>
                   /\ purl.type = "generic"
                   /\ purl.name = comps[i].name
                   /\ Len(quals) = 2
                   /\ quals[1] = <<"download_url", <<raws[i].download_url[1]>>>>
                   /\ quals[2][1] = "checksums"
                   /\ Len(quals[2][2]) = 4 * Len(cs) - 1
                   /\ \A j \in 1..Len(cs) :
                        /\ quals[2][2][4 * j - 3] = cs[j][1]
                        /\ quals[2][2][4 * j - 2] = ":"
                        /\ quals[2][2][4 * j - 1] = cs[j][2]
                        /\ j < Len(cs) => quals[2][2][4 * j] = ","

\* two transfers completed in the order opposite to the lockfile's, and the
\* two components differ
C7_Witness ==
    /\ 1 \in emitted
    /\ Len(components) = 2
    /\ components[1] # components[2]
    /\ Len(to_download) = 2
    /\ completed = <<to_download[2][1], to_download[1][1]>>

\* the same artifact twice gives two components
C7_WitnessDuplicates ==
    /\ 1 \in emitted
    /\ Len(components) = 2
    /\ components[1] = components[2]

\* the resolved targets and the URLs of the raw artifacts of package p
TargetOf(p, i) == Resolve(GenericRoot, RawArtifactsOf(p)[i].target[1])
UrlOf(p, i) == RawArtifactsOf(p)[i].download_url[1]
Indexes(p) == 1..Len(RawArtifactsOf(p))

\* no two artifacts of package p with different URLs share a target
NoSharedTarget(p) ==
    \A i, j \in Indexes(p) : TargetOf(p, i) = TargetOf(p, j) => UrlOf(p, i) = UrlOf(p, j)

\* the output tree a call on an empty output directory leaves when it returns
CleanDirs(p) == UNION {Prefixes(Parent(TargetOf(p, i))) : i \in Indexes(p)}
CleanFiles(p) ==
    [t \in {TargetOf(p, i) : i \in Indexes(p)} |->
        Content(UrlOf(p, CHOOSE i \in Indexes(p) : TargetOf(p, i) = t))]

\* the call returned and it is not the first call that did
ReturnedAgain == pc = "done" /\ \E n \in 1..Len(past) : past[n] = "done"

\* C9 as stated: a call that returns leaves the output tree that the first
\* call that returned left.
C9_SameTreeAsFirstRun ==
    pc = "done" => dirs = first_done[1].dirs /\ files = first_done[1].files

\* C9, amended: for a lockfile in which no two artifacts with different URLs
\* share a target, every call that returns, the first or a later one, after
\* calls that returned or failed, leaves the tree of a call on an empty output
\* directory; directories and files that exist already are no error; and when
\* the batch fails the files of the completed transfers are in place.
C9_IdempotentAndRetryable ==
    NoSharedTarget(1) =>
        /\ pc = "done" =>
            /\ dirs = CleanDirs(1)
            /\ files = CleanFiles(1)
            /\ dirs = first_done[1].dirs
            /\ files = first_done[1].files
        /\ ~FailedWith("FileExistsError")
        /\ ~FailedWith("NotADirectoryError")
        /\ FailedWith("FetchError") =>
            \A i \in 1..Len(to_download) :
                (\E n \in 1..Len(completed) : completed[n] = to_download[i][1])
                    => /\ to_download[i][2] \in DOMAIN files
                       /\ files[to_download[i][2]] = Content(to_download[i][1])

\* a call returns after an earlier call failed in the download batch, with two
\* files to write
C9_Witness ==
    /\ pc = "done"
    /\ past = <<"FetchError">>
    /\ Cardinality(DOMAIN files) = 2

\* a call returns after an earlier call returned
C9_WitnessTwice ==
    /\ ReturnedAgain
    /\ Cardinality(DOMAIN files) = 2

RECURSIVE UrlsUpTo(_)
\* the URLs of the artifacts of packages 1..n, in order
UrlsUpTo(n) ==
    IF n = 0 THEN <<>>
    ELSE UrlsUpTo(n - 1) \o [i \in Indexes(n) |-> UrlOf(n, i)]

RECURSIVE DigestsUpTo(_)
\* the first declared digest of the artifacts of packages 1..n, in order
DigestsUpTo(n) ==
    IF n = 0 THEN <<>>
    ELSE DigestsUpTo(n - 1) \o [i \in Indexes(n) |-> RawArtifactsOf(n)[i].checksums[1][1][2]]

C10_WitnessDone ==
    /\ pc = "done"
    /\ Len(request) = 2
    /\ Len(output[1].components) = 2
    /\ output[1].components[1] # output[1].components[2]

====
